---- MODULE Spec2Model ----
(***************************************************************************)
(* Model of the caching and concurrent-fetch orchestration of the web      *)
(* analyzer plugin (src/main.py, class WebAnalyzerPlugin).                 *)
(*                                                                         *)
(* State: the in-flight set processing_urls, the result cache held by      *)
(* cache_manager, the clock, and the position of every running handler:    *)
(* the batch generators (_batch_process_urls, started by analyze_webpage   *)
(* or auto_detect_urls), their per-URL tasks (_process_single_url) and the *)
(* single-URL export command (export_analysis_result).                     *)
(*                                                                         *)
(* Scheduling is asyncio's: one step of the model is the code a coroutine  *)
(* runs between two suspension points (await / yield).                     *)
(*                                                                         *)
(* enable_screenshot is taken at its default (True) and                    *)
(* enable_translation at its default (False): a disabled screenshot gives  *)
(* the same result as a capture that returns None.                         *)
(***************************************************************************)
EXTENDS Integers, Sequences, FiniteSets, TLC

\* ---------------------------------------------------------------- bounds
MaxBatchLen == 2
MaxTicks == 2
\* configured values of cache_settings (the plugin clamps them, see below)
CfgCacheExpireTime == 5
CfgMaxCacheSize == 10

\* the URLs of the messages, and the two handler invocations that can run
\* a batch side by side
URLS == {"urlA", "urlB"}
Batches == {1, 2}

Range(s) == {s[i] : i \in DOMAIN s}
Max(a, b) == IF a >= b THEN a ELSE b
Min(a, b) == IF a <= b THEN a ELSE b

\* all non-empty URL lists a caller can hand to a batch
UrlLists == UNION {[1..n -> URLS] : n \in 1..MaxBatchLen}

\* ------------------------------------------------------- configuration
\* __init__: self.cache_expire_time = max(5, min(10080, cfg))
ClampExpireTime(cfg) == Max(5, Min(10080, cfg))

\* a size that is capped and has no floor
ClampCacheSizeNoFloor(cfg) == Min(1000, cfg)

\* __init__: self.max_cache_size = max(10, min(1000, cfg))
ClampCacheSize(cfg) == Max(10, Min(1000, cfg))

\* the cache_settings of the configuration the models run with
DefaultSettings ==
    [cache_expire_time |-> CfgCacheExpireTime, max_cache_size |-> CfgMaxCacheSize]

\* integer settings below, inside and above the two ranges
CacheSettings ==
    [cache_expire_time : {0, 6, 10081}, max_cache_size : {0, 11, 1001}]

\* ------------------------------------------------------------- results
\* the result dict {'url', 'result', 'screenshot'}; NoResult stands for None
NoResult == [url |-> "none", result |-> "none", screenshot |-> "none"]

\* texts produced by the failure returns of _process_single_url
ErrorTexts == {"fetch_error", "parse_error", "exception"}
\* texts returned by analyze_with_llm: the LLM report, the basic analysis
\* (get_enhanced_analysis) and the text of its own except branch
AnalysisTexts == {"analysis", "basic", "llm_error"}

ErrorResult(url, text) == [url |-> url, result |-> text, screenshot |-> "none"]

ResultData(url, analysis, shot) == [url |-> url, result |-> analysis, screenshot |-> shot]

VARIABLES
    processing_urls,   \* self.processing_urls
    cache,             \* entries of self.cache_manager, oldest insertion first
    now,               \* the clock the cache reads
    enable_cache,      \* self.enable_cache
    pc,                \* position of each batch generator
    urls,              \* the urls argument of each batch, while the client is being acquired
    filtered_urls,     \* the local filtered_urls of each batch
    analyzer,          \* the WebAnalyzer of the batch's async with: "open" inside the block
    tasks,             \* the per-URL coroutines handed to asyncio.gather
    completed,         \* task indices in the order the tasks finished
    analysis_results,  \* the local analysis_results of each batch
    sent,              \* results the batch has yielded to its consumer
    epc,               \* position of the export command
    eurl,              \* URL of the export command
    allowed_domains,   \* self.allowed_domains
    blocked_domains,   \* self.blocked_domains
    auto_analyze,      \* self.auto_analyze
    group_blacklist,   \* self.group_blacklist
    config,            \* self.config['group_blacklist']
    config_file,       \* the group_blacklist text that save_config last wrote
    event,             \* the message the platform is handing to the handlers
    cache_settings,    \* config['cache_settings']: the two configured integers
    cache_expire_time, \* self.cache_expire_time, the expire_time of the CacheManager
    max_cache_size     \* self.max_cache_size, the max_size of the CacheManager

vars == <<processing_urls, cache, now, enable_cache, pc, urls, filtered_urls,
          analyzer, tasks, completed, analysis_results, sent, epc, eurl,
          allowed_domains, blocked_domains, auto_analyze, group_blacklist,
          config, config_file, event, cache_settings, cache_expire_time,
          max_cache_size>>

configVars == <<cache_settings, cache_expire_time, max_cache_size>>

\* __init__: the two settings are read and clamped, and the CacheManager is
\* constructed with the clamped values
ConstructCache(settings) ==
    /\ cache_settings = settings
    /\ cache_expire_time = ClampExpireTime(settings.cache_expire_time)
    /\ max_cache_size = ClampCacheSize(settings.max_cache_size)

accessVars == <<allowed_domains, blocked_domains, auto_analyze, group_blacklist,
                config, config_file, event>>

batchVars == <<pc, urls, filtered_urls, analyzer, tasks, completed,
               analysis_results, sent>>

exportVars == <<epc, eurl>>

\* ------------------------------------------------- cache (CacheManager)
CacheEntry(key, value, t) ==
    [key |-> key, value |-> value, expires_at |-> t + cache_expire_time]

CacheHas(c, key) == \E i \in DOMAIN c : c[i].key = key

CachePos(c, key) == CHOOSE i \in DOMAIN c : c[i].key = key

\* a get that still answers at the instant the window closes
CacheGetAtBoundary(c, key, t) ==
    IF CacheHas(c, key) /\ t <= c[CachePos(c, key)].expires_at
    THEN c[CachePos(c, key)].value
    ELSE NoResult

\* get: the stored value only while now < expires_at, else a miss
CacheGet(c, key, t) ==
    IF CacheHas(c, key) /\ t < c[CachePos(c, key)].expires_at
    THEN c[CachePos(c, key)].value
    ELSE NoResult

\* a set that never evicts
CacheSetNoEvict(c, key, value, t) ==
    IF CacheHas(c, key)
    THEN [c EXCEPT ![CachePos(c, key)] = CacheEntry(key, value, t)]
    ELSE Append(c, CacheEntry(key, value, t))

\* a set that makes room in a full cache before it looks for the key
CacheSetEvictsFirst(c, key, value, t) ==
    LET room == IF Len(c) >= max_cache_size THEN Tail(c) ELSE c IN
    IF CacheHas(room, key)
    THEN [room EXCEPT ![CachePos(room, key)] = CacheEntry(key, value, t)]
    ELSE Append(room, CacheEntry(key, value, t))

\* set: overwrite in place, or insert, evicting the oldest entry when full
CacheSet(c, key, value, t) ==
    IF CacheHas(c, key)
    THEN [c EXCEPT ![CachePos(c, key)] = CacheEntry(key, value, t)]
    ELSE IF Len(c) >= max_cache_size
         THEN Append(Tail(c), CacheEntry(key, value, t))
         ELSE Append(c, CacheEntry(key, value, t))

\* a clear that drops the expired entries only
CacheClearExpired(c) == SelectSeq(c, LAMBDA e : now < e.expires_at)

CacheClear(c) == << >>

\* a get that moves the entry it has read behind all others
CacheAfterGetMovesLast(c, key, t) ==
    IF CacheHas(c, key)
    THEN LET p == CachePos(c, key) IN
         Append(SubSeq(c, 1, p - 1) \o SubSeq(c, p + 1, Len(c)), c[p])
    ELSE c

\* get leaves the entries as they are: an expired entry is not deleted, and
\* a read does not change the order of insertion
CacheAfterGet(c, key, t) == c

\* stats: all entries, those with now < expires_at, and the rest
CacheStats(c, t) ==
    LET valid == Cardinality({i \in DOMAIN c : t < c[i].expires_at})
    IN  [total |-> Len(c), valid |-> valid, expired |-> Len(c) - valid]

\* a stats that purges the expired entries it has counted
CacheAfterStatsPurges(c, t) == SelectSeq(c, LAMBDA e : t < e.expires_at)

\* stats is read-only: expired entries are counted, not purged
CacheAfterStats(c, t) == c

\* a cache check that never finds anything
CheckCacheMiss(url) == NoResult

\* _check_cache
CheckCache(url) ==
    IF ~enable_cache THEN NoResult ELSE CacheGet(cache, url, now)

\* an update that writes whatever the switch says
UpdateCacheAlways(url, result) == CacheSet(cache, url, result, now)

\* _update_cache
UpdateCache(url, result) ==
    IF ~enable_cache THEN cache ELSE CacheSet(cache, url, result, now)

\* ------------------------------------------------- in-flight admission
\* the filter loop of _batch_process_urls: a URL is kept when it is not in
\* the in-flight set, and is added to the set at once
\* a filter loop without the membership test
FilterUrlsNoCheck(us, active) == us

RECURSIVE FilterUrls(_, _)
FilterUrls(us, active) ==
    IF us = << >> THEN << >>
    ELSE IF Head(us) \notin active
         THEN <<Head(us)>> \o FilterUrls(Tail(us), active \cup {Head(us)})
         ELSE FilterUrls(Tail(us), active)

\* an admission whose adds have not happened when the loop gives way to
\* other handlers
AdmitLater(filtered, active) == active

\* the in-flight set when the filter loop is through: every URL it kept has
\* been added, with no await between its test and its add
Admit(filtered, active) == active \cup Range(filtered)

\* a finally block that removes nothing
ReleaseNone(filtered, active) == active

\* a finally block that empties the whole set
ReleaseAll(filtered, active) == {}

\* the finally block of _batch_process_urls
ReleaseUrls(filtered, active) == active \ Range(filtered)

\* ---------------------------------------------------------------- tasks
NewTask == [pc |-> "new", llm |-> "none", analysis |-> "none", result |-> NoResult]

\* the coroutine has returned result_data or an error result
TaskDone(result) == [pc |-> "done", llm |-> "none", analysis |-> "none", result |-> result]

\* the coroutine has returned cached_result
TaskHit(result) == [pc |-> "hit", llm |-> "none", analysis |-> "none", result |-> result]

Returned == {"done", "hit"}

\* ------------------------------------------------------- access control
\* texts are sequences of characters
AdIo == <<"a", "d", ".", "i", "o">>
BadIo == <<"B", "a", "d", ".", "i", "o">>

\* urlparse(url).netloc of the URLs of the messages
Netloc(url) ==
    CASE url = "urlA" -> AdIo
      [] url = "urlB" -> BadIo
      [] OTHER -> << >>

\* str.lower
Lower(ch) ==
    CASE ch = "A" -> "a"
      [] ch = "B" -> "b"
      [] OTHER -> ch

ToLower(text) == [i \in DOMAIN text |-> Lower(text[i])]

\* the operator in of two strings: sub occurs somewhere in text
Contains(text, sub) ==
    \E i \in 0..(Len(text) - Len(sub)) : SubSeq(text, i + 1, i + Len(sub)) = sub

\* values of allowed_domains and blocked_domains that _parse_domain_list
\* can produce
DomainLists == {<< >>, <<AdIo>>, <<<<"B", "A", "d", ".", "i", "o">>>>}

\* _is_domain_allowed: a blocked entry found in the domain rejects; then a
\* non-empty allowed list accepts only a domain that holds one of its
\* entries; an empty allowed list accepts
IsDomainAllowed(url) ==
    LET domain == ToLower(Netloc(url)) IN
    IF \E i \in DOMAIN blocked_domains : Contains(domain, ToLower(blocked_domains[i]))
    THEN FALSE
    ELSE IF allowed_domains # << >>
         THEN \E i \in DOMAIN allowed_domains : Contains(domain, ToLower(allowed_domains[i]))
         ELSE TRUE

\* allowed_urls of the two handlers
AllowedUrls(us) == SelectSeq(us, IsDomainAllowed)

\* group ids of the chats
Groups == {"g1", "g2", "g3"}

\* _is_group_blacklisted
IsGroupBlacklisted(group_id) ==
    IF group_id = "" \/ group_blacklist = << >>
    THEN FALSE
    ELSE group_id \in Range(group_blacklist)

\* the text of the group_blacklist setting: a sequence of group ids and
\* line breaks
\* _parse_group_list: the lines of the text that are not empty
ParseGroupList(group_text) == SelectSeq(group_text, LAMBDA t : t # "\n")

\* '\n'.join
RECURSIVE JoinLines(_)
JoinLines(list) ==
    IF Len(list) <= 1
    THEN list
    ELSE <<Head(list), "\n">> \o JoinLines(Tail(list))

\* str.strip, as far as the head of the text goes
RECURSIVE Strip(_)
Strip(text) ==
    IF text # << >> /\ Head(text) = " " THEN Strip(Tail(text)) ELSE text

\* str.startswith for a one-character prefix
StartsWith(text, ch) == text # << >> /\ Head(text) = ch

\* command_keywords of auto_detect_urls, and the test that one of them is in
\* the raw message (a sequence of words)
CommandKeywords == {"wangye_fenxi", "/fenxi", "/zongjie", "/web", "/analyze"}
HasKeyword(raw_message) == \E i \in DOMAIN raw_message : raw_message[i] \in CommandKeywords

\* what auto_detect_urls reads of a message: its text, whether the event
\* has a command attribute, its raw message, and its group ("" outside a
\* group)
Events ==
    [message_str : {<<"t", "e", "x", "t">>, <<" ", "/", "w", "e", "b">>},
     command : BOOLEAN,
     raw_message : {<<"text">>, <<"see", "/web">>},
     group_id : {"", "g1", "g2"}]

\* a plain message outside a group
PlainEvent ==
    [message_str |-> <<"t", "e", "x", "t">>, command |-> FALSE,
     raw_message |-> <<"text">>, group_id |-> ""]

InitCore ==
    /\ processing_urls = {}
    /\ cache = << >>
    /\ now = 0
    /\ enable_cache \in BOOLEAN
    /\ pc = [b \in Batches |-> "idle"]
    /\ urls = [b \in Batches |-> << >>]
    /\ filtered_urls = [b \in Batches |-> << >>]
    /\ analyzer = [b \in Batches |-> "none"]
    /\ tasks = [b \in Batches |-> << >>]
    /\ completed = [b \in Batches |-> << >>]
    /\ analysis_results = [b \in Batches |-> << >>]
    /\ sent = [b \in Batches |-> 0]
    /\ epc = "idle"
    /\ eurl = "none"

\* the default configuration: no domain list, auto-detection on, an empty
\* group blacklist; a plain message is at hand
Init ==
    /\ InitCore
    /\ allowed_domains = << >>
    /\ blocked_domains = << >>
    /\ auto_analyze = TRUE
    /\ group_blacklist = << >>
    /\ config = << >>
    /\ config_file = << >>
    /\ event = PlainEvent
    /\ ConstructCache(DefaultSettings)

\* ------------------------------------------------- _batch_process_urls
\* positions inside the try block
Running == {"aenter", "gather", "send", "send_error", "abandoned"}
\* the generator has not started, or has ended: by the early return of an
\* empty admission ("skipped"), by running to its end or being closed
\* ("done"), by raising an exception to its caller ("raised") or by
\* CancelledError ("cancelled")
Ended == {"idle", "skipped", "done", "raised", "cancelled"}

\* a finally block that removes every URL the batch was handed
FinallyReleasesInput(b, how) ==
    /\ processing_urls' = processing_urls \ (Range(urls[b]) \cup Range(filtered_urls[b]))
    /\ pc' = [pc EXCEPT ![b] = how]
    /\ urls' = [urls EXCEPT ![b] = << >>]
    /\ filtered_urls' = [filtered_urls EXCEPT ![b] = << >>]
    /\ tasks' = [tasks EXCEPT ![b] = << >>]
    /\ completed' = [completed EXCEPT ![b] = << >>]
    /\ analysis_results' = [analysis_results EXCEPT ![b] = << >>]
    /\ sent' = [sent EXCEPT ![b] = 0]

\* the finally block, on whichever path leaves the try; the generator ends
\* in position how and its frame is gone
Finally(b, how) ==
    /\ processing_urls' = ReleaseUrls(filtered_urls[b], processing_urls)
    /\ pc' = [pc EXCEPT ![b] = how]
    /\ urls' = [urls EXCEPT ![b] = << >>]
    /\ filtered_urls' = [filtered_urls EXCEPT ![b] = << >>]
    /\ tasks' = [tasks EXCEPT ![b] = << >>]
    /\ completed' = [completed EXCEPT ![b] = << >>]
    /\ analysis_results' = [analysis_results EXCEPT ![b] = << >>]
    /\ sent' = [sent EXCEPT ![b] = 0]

\* a batch that goes on to acquire the client with nothing admitted
BatchStartNoEarlyReturn(b, us) ==
    /\ pc[b] \in Ended
    /\ LET f == FilterUrls(us, processing_urls) IN
        /\ filtered_urls' = [filtered_urls EXCEPT ![b] = f]
        /\ processing_urls' = Admit(f, processing_urls)
    /\ pc' = [pc EXCEPT ![b] = "aenter"]
    /\ urls' = [urls EXCEPT ![b] = us]
    /\ analyzer' = [analyzer EXCEPT ![b] = "none"]
    /\ UNCHANGED <<cache, now, enable_cache, configVars, accessVars, tasks, completed, analysis_results,
                   sent, exportVars>>

\* first resumption of the generator: the filter loop, the early return when
\* nothing is admitted, then the try block up to the await of __aenter__
BatchStart(b, us) ==
    /\ pc[b] \in Ended
    /\ LET f == FilterUrls(us, processing_urls) IN
        /\ filtered_urls' = [filtered_urls EXCEPT ![b] = f]
        /\ processing_urls' = Admit(f, processing_urls)
        /\ IF f = << >>
           THEN /\ pc' = [pc EXCEPT ![b] = "skipped"]
                /\ urls' = [urls EXCEPT ![b] = << >>]
           ELSE /\ pc' = [pc EXCEPT ![b] = "aenter"]
                /\ urls' = [urls EXCEPT ![b] = us]
    /\ analyzer' = [analyzer EXCEPT ![b] = "none"]
    /\ UNCHANGED <<cache, now, enable_cache, configVars, accessVars, tasks, completed, analysis_results,
                   sent, exportVars>>

\* the manual command for a message with the valid URLs us: the domain
\* filter, the reply when nothing is left, else the batch
analyze_webpage(b, us) ==
    IF AllowedUrls(us) = << >>
    THEN pc[b] \in Ended /\ UNCHANGED vars
    ELSE BatchStart(b, AllowedUrls(us))

\* guards of auto_detect_urls that leave the blacklist out
AutoDetectSkipsNoBlacklist ==
    \/ ~auto_analyze
    \/ StartsWith(Strip(event.message_str), "/")
    \/ event.command
    \/ HasKeyword(event.raw_message)

\* the guards of auto_detect_urls: any of them ends the handler in silence
AutoDetectSkips ==
    \/ ~auto_analyze
    \/ StartsWith(Strip(event.message_str), "/")
    \/ event.command
    \/ HasKeyword(event.raw_message)
    \/ event.group_id # "" /\ IsGroupBlacklisted(event.group_id)

\* automatic detection for the message at hand, with the valid URLs us: the
\* guards, the domain filter, then the same batch
auto_detect_urls(b, us) ==
    IF AutoDetectSkips \/ AllowedUrls(us) = << >>
    THEN pc[b] \in Ended /\ UNCHANGED vars
    ELSE BatchStart(b, AllowedUrls(us))

\* async with WebAnalyzer(...) as analyzer: the client is open, and the
\* coroutines of the admitted URLs are handed to asyncio.gather
AcquireOk(b) ==
    /\ pc[b] = "aenter"
    /\ analyzer' = [analyzer EXCEPT ![b] = "open"]
    /\ tasks' = [tasks EXCEPT ![b] = [i \in DOMAIN filtered_urls[b] |-> NewTask]]
    /\ pc' = [pc EXCEPT ![b] = "gather"]
    /\ urls' = [urls EXCEPT ![b] = << >>]
    /\ UNCHANGED <<processing_urls, cache, now, enable_cache, configVars, accessVars, filtered_urls,
                   completed, analysis_results, sent, exportVars>>

\* an acquisition failure that reaches the caller with the URLs still held
AcquireFailNoRelease(b) ==
    /\ pc[b] = "aenter"
    /\ pc' = [pc EXCEPT ![b] = "raised"]
    /\ urls' = [urls EXCEPT ![b] = << >>]
    /\ filtered_urls' = [filtered_urls EXCEPT ![b] = << >>]
    /\ UNCHANGED <<processing_urls, cache, now, enable_cache, configVars, accessVars, analyzer, tasks,
                   completed, analysis_results, sent, exportVars>>

\* __aenter__ raises: the exception leaves the try through the finally block
\* and reaches the caller
AcquireFail(b) ==
    /\ pc[b] = "aenter"
    /\ Finally(b, "raised")
    /\ UNCHANGED <<cache, now, enable_cache, configVars, accessVars, analyzer, exportVars>>

\* _process_single_url up to its first await: the cache check
TaskStart(b, i) ==
    /\ pc[b] = "gather"
    /\ i \in DOMAIN tasks[b]
    /\ tasks[b][i].pc = "new"
    /\ LET cached_result == CheckCache(filtered_urls[b][i]) IN
        IF cached_result /= NoResult
        THEN /\ tasks' = [tasks EXCEPT ![b][i] = TaskHit(cached_result)]
             /\ completed' = [completed EXCEPT ![b] = Append(@, i)]
        ELSE /\ tasks' = [tasks EXCEPT ![b][i].pc = "fetch"]
             /\ UNCHANGED completed
    /\ UNCHANGED <<processing_urls, cache, now, enable_cache, configVars, accessVars, pc, urls, filtered_urls,
                   analyzer, analysis_results, sent, exportVars>>

\* fetch_webpage gives the page, nothing, or raises; extract_content gives
\* the content or nothing
FetchOutcomes == {"ok", "fetch_none", "parse_none", "raise"}

FetchErrorText(out) ==
    CASE out = "fetch_none" -> "fetch_error"
      [] out = "parse_none" -> "parse_error"
      [] OTHER -> "exception"

\* a failure return that writes its error result to the cache
FetchReturnCachesError(b, i, out) ==
    /\ pc[b] = "gather"
    /\ i \in DOMAIN tasks[b]
    /\ tasks[b][i].pc = "fetch"
    /\ IF out = "ok"
       THEN /\ tasks' = [tasks EXCEPT ![b][i].pc = "llm"]
            /\ UNCHANGED <<completed, cache>>
       ELSE /\ tasks' = [tasks EXCEPT ![b][i] =
                    TaskDone(ErrorResult(filtered_urls[b][i], FetchErrorText(out)))]
            /\ completed' = [completed EXCEPT ![b] = Append(@, i)]
            /\ cache' = UpdateCache(filtered_urls[b][i],
                                    ErrorResult(filtered_urls[b][i], FetchErrorText(out)))
    /\ UNCHANGED <<processing_urls, now, enable_cache, configVars, accessVars, pc, urls, filtered_urls,
                   analyzer, analysis_results, sent, exportVars>>

\* fetch_webpage returns (or raises), then extract_content, up to the await
\* of analyze_with_llm
FetchReturn(b, i, out) ==
    /\ pc[b] = "gather"
    /\ i \in DOMAIN tasks[b]
    /\ tasks[b][i].pc = "fetch"
    /\ IF out = "ok"
       THEN /\ tasks' = [tasks EXCEPT ![b][i].pc = "llm"]
            /\ UNCHANGED completed
       ELSE /\ tasks' = [tasks EXCEPT ![b][i] =
                    TaskDone(ErrorResult(filtered_urls[b][i], FetchErrorText(out)))]
            /\ completed' = [completed EXCEPT ![b] = Append(@, i)]
    /\ UNCHANGED <<processing_urls, cache, now, enable_cache, configVars, accessVars, pc, urls, filtered_urls,
                   analyzer, analysis_results, sent, exportVars>>

\* what the language model does for analyze_with_llm: a completion text, an
\* empty completion, no model to call (disabled, or no provider), or an
\* exception of the call
LlmCalls == {"text", "empty", "unavailable", "error"}

\* an analyze_with_llm whose except branch falls back to the basic analysis
AnalyzeWithLlmFallback(call) ==
    IF call = "text" THEN "analysis" ELSE "basic"

\* analyze_with_llm: the text it returns (it catches its own exceptions)
AnalyzeWithLlm(call) ==
    CASE call = "text" -> "analysis"
      [] call \in {"empty", "unavailable"} -> "basic"
      [] OTHER -> "llm_error"

\* analyze_with_llm returns; "raise" is an exception of the specific-content
\* block that follows it
LlmOutcomes == LlmCalls \cup {"raise"}

\* a task whose exception is not caught: it leaves gather and the batch
LlmReturnPropagates(b, i, out) ==
    /\ pc[b] = "gather"
    /\ i \in DOMAIN tasks[b]
    /\ tasks[b][i].pc = "llm"
    /\ IF out = "raise"
       THEN /\ Finally(b, "raised")
            /\ UNCHANGED analyzer
       ELSE /\ tasks' = [tasks EXCEPT ![b][i] =
                    [pc |-> "shot", llm |-> out, analysis |-> AnalyzeWithLlm(out),
                     result |-> NoResult]]
            /\ UNCHANGED <<processing_urls, pc, urls, filtered_urls, analyzer,
                           completed, analysis_results, sent>>
    /\ UNCHANGED <<cache, now, enable_cache, configVars, accessVars, exportVars>>

\* analyze_with_llm returns, then the specific-content block runs, up to the
\* await of capture_screenshot
LlmReturn(b, i, out) ==
    /\ pc[b] = "gather"
    /\ i \in DOMAIN tasks[b]
    /\ tasks[b][i].pc = "llm"
    /\ IF out = "raise"
       THEN /\ tasks' = [tasks EXCEPT ![b][i] =
                    TaskDone(ErrorResult(filtered_urls[b][i], "exception"))]
            /\ completed' = [completed EXCEPT ![b] = Append(@, i)]
       ELSE /\ tasks' = [tasks EXCEPT ![b][i] =
                    [pc |-> "shot", llm |-> out, analysis |-> AnalyzeWithLlm(out),
                     result |-> NoResult]]
            /\ UNCHANGED completed
    /\ UNCHANGED <<processing_urls, cache, now, enable_cache, configVars, accessVars, pc, urls, filtered_urls,
                   analyzer, analysis_results, sent, exportVars>>

\* capture_screenshot gives the image, None, or raises
ShotOutcomes == {"img", "none", "raise"}

\* a tail that returns result_data without writing it
WriteThroughSkipped(url, result_data) == cache

\* the tail of _process_single_url: the cache written with result_data
WriteThrough(url, result_data) == UpdateCache(url, result_data)

\* capture_screenshot returns, result_data is built, written to the cache
\* and returned; an exception ends in the except branch, without the write
ShotReturn(b, i, out) ==
    /\ pc[b] = "gather"
    /\ i \in DOMAIN tasks[b]
    /\ tasks[b][i].pc = "shot"
    /\ LET url == filtered_urls[b][i]
           result_data == ResultData(url, tasks[b][i].analysis, out) IN
        IF out = "raise"
        THEN /\ tasks' = [tasks EXCEPT ![b][i] = TaskDone(ErrorResult(url, "exception"))]
             /\ UNCHANGED cache
        ELSE /\ tasks' = [tasks EXCEPT ![b][i] = TaskDone(result_data)]
             /\ cache' = WriteThrough(url, result_data)
    /\ completed' = [completed EXCEPT ![b] = Append(@, i)]
    /\ UNCHANGED <<processing_urls, now, enable_cache, configVars, accessVars, pc, urls, filtered_urls,
                   analyzer, analysis_results, sent, exportVars>>

\* a gather that lists the results as the tasks finish
GatherByCompletion(b) == [k \in DOMAIN tasks[b] |-> tasks[b][completed[b][k]].result]

\* asyncio.gather(*tasks): the results in the order of the tasks
Gather(b) == [i \in DOMAIN tasks[b] |-> tasks[b][i].result]

\* a batch that releases its URLs as soon as the results are collected
GatherDoneReleases(b) ==
    /\ pc[b] = "gather"
    /\ \A i \in DOMAIN tasks[b] : tasks[b][i].pc \in Returned
    /\ analysis_results' = [analysis_results EXCEPT ![b] = Gather(b)]
    /\ tasks' = [tasks EXCEPT ![b] = << >>]
    /\ analyzer' = [analyzer EXCEPT ![b] = "none"]
    /\ pc' = [pc EXCEPT ![b] = "send"]
    /\ processing_urls' = ReleaseUrls(filtered_urls[b], processing_urls)
    /\ UNCHANGED <<cache, now, enable_cache, configVars, accessVars, urls, filtered_urls,
                   completed, sent, exportVars>>

\* a gather that returns as soon as one task has returned an error result
GatherShortCircuit(b) ==
    /\ pc[b] = "gather"
    /\ \/ \A i \in DOMAIN tasks[b] : tasks[b][i].pc \in Returned
       \/ \E i \in DOMAIN tasks[b] :
            tasks[b][i].pc = "done" /\ tasks[b][i].result.result \in ErrorTexts
    /\ analysis_results' = [analysis_results EXCEPT ![b] = Gather(b)]
    /\ tasks' = [tasks EXCEPT ![b] = << >>]
    /\ analyzer' = [analyzer EXCEPT ![b] = "none"]
    /\ pc' = [pc EXCEPT ![b] = "send"]
    /\ UNCHANGED <<processing_urls, cache, now, enable_cache, configVars, accessVars, urls, filtered_urls,
                   completed, sent, exportVars>>

\* every task has returned: gather returns the list, the async with block
\* closes the client, and _send_analysis_result is entered
GatherDone(b) ==
    /\ pc[b] = "gather"
    /\ \A i \in DOMAIN tasks[b] : tasks[b][i].pc \in Returned
    /\ analysis_results' = [analysis_results EXCEPT ![b] = Gather(b)]
    /\ tasks' = [tasks EXCEPT ![b] = << >>]
    /\ analyzer' = [analyzer EXCEPT ![b] = "none"]
    /\ pc' = [pc EXCEPT ![b] = "send"]
    /\ UNCHANGED <<processing_urls, cache, now, enable_cache, configVars, accessVars, urls, filtered_urls,
                   completed, sent, exportVars>>

\* yield result: the generator is suspended with one more result handed over
Deliver(b) ==
    /\ pc[b] = "send"
    /\ sent[b] < Len(analysis_results[b])
    /\ sent' = [sent EXCEPT ![b] = @ + 1]
    /\ UNCHANGED <<processing_urls, cache, now, enable_cache, configVars, accessVars, pc, urls, filtered_urls,
                   analyzer, tasks, completed, analysis_results, exportVars>>

\* a failed delivery whose exception leaves the generator with its URLs
\* still in the set
SendFailsNoCleanup(b) ==
    /\ pc[b] = "send"
    /\ pc' = [pc EXCEPT ![b] = "raised"]
    /\ urls' = [urls EXCEPT ![b] = << >>]
    /\ filtered_urls' = [filtered_urls EXCEPT ![b] = << >>]
    /\ tasks' = [tasks EXCEPT ![b] = << >>]
    /\ completed' = [completed EXCEPT ![b] = << >>]
    /\ analysis_results' = [analysis_results EXCEPT ![b] = << >>]
    /\ sent' = [sent EXCEPT ![b] = 0]
    /\ UNCHANGED <<processing_urls, cache, now, enable_cache, configVars, accessVars, analyzer, exportVars>>

\* _send_analysis_result raises while it builds or hands over a message: its
\* except branch yields the error text instead, and the generator is
\* suspended at that yield
SendFails(b) ==
    /\ pc[b] = "send"
    /\ pc' = [pc EXCEPT ![b] = "send_error"]
    /\ UNCHANGED <<processing_urls, cache, now, enable_cache, configVars, accessVars, urls, filtered_urls,
                   analyzer, tasks, completed, analysis_results, sent, exportVars>>

\* resumed after the last yield (of a result or of the error text): the loop
\* ends and the finally block runs
Finish(b) ==
    /\ \/ pc[b] = "send" /\ sent[b] = Len(analysis_results[b])
       \/ pc[b] = "send_error"
    /\ Finally(b, "done")
    /\ UNCHANGED <<cache, now, enable_cache, configVars, accessVars, analyzer, exportVars>>

\* a cancellation that leaves the client open
CancelNoClose(b) ==
    /\ \/ pc[b] \in {"aenter", "gather"}
       \/ pc[b] = "send" /\ sent[b] = 0
    /\ Finally(b, "cancelled")
    /\ UNCHANGED <<cache, now, enable_cache, configVars, accessVars, analyzer, exportVars>>

\* the surrounding operation is cancelled while the generator awaits
\* (__aenter__, gather, __aexit__): CancelledError is raised at the await,
\* the pending tasks are cancelled, the client is closed, finally runs
Cancel(b) ==
    /\ \/ pc[b] \in {"aenter", "gather"}
       \/ pc[b] = "send" /\ sent[b] = 0
    /\ analyzer' = [analyzer EXCEPT ![b] = "none"]
    /\ Finally(b, "cancelled")
    /\ UNCHANGED <<cache, now, enable_cache, configVars, accessVars, exportVars>>

\* the consumer stops iterating while the generator is suspended at a yield
Abandon(b) ==
    /\ \/ pc[b] = "send" /\ sent[b] >= 1
       \/ pc[b] = "send_error"
    /\ pc' = [pc EXCEPT ![b] = "abandoned"]
    /\ UNCHANGED <<processing_urls, cache, now, enable_cache, configVars, accessVars, urls, filtered_urls,
                   analyzer, tasks, completed, analysis_results, sent, exportVars>>

\* an abandoned generator dropped without its finally block being run
FinalizeNoCleanup(b) ==
    /\ pc[b] = "abandoned"
    /\ pc' = [pc EXCEPT ![b] = "done"]
    /\ urls' = [urls EXCEPT ![b] = << >>]
    /\ filtered_urls' = [filtered_urls EXCEPT ![b] = << >>]
    /\ tasks' = [tasks EXCEPT ![b] = << >>]
    /\ completed' = [completed EXCEPT ![b] = << >>]
    /\ analysis_results' = [analysis_results EXCEPT ![b] = << >>]
    /\ sent' = [sent EXCEPT ![b] = 0]
    /\ UNCHANGED <<processing_urls, cache, now, enable_cache, configVars, accessVars, analyzer, exportVars>>

\* the event loop closes the abandoned generator (aclose): GeneratorExit is
\* raised at the yield and the finally block runs
Finalize(b) ==
    /\ pc[b] = "abandoned"
    /\ Finally(b, "done")
    /\ UNCHANGED <<cache, now, enable_cache, configVars, accessVars, analyzer, exportVars>>

\* ------------------------------------- export_analysis_result (one URL)
\* the command up to its first await: a cache hit is exported at once, a
\* miss opens a client of its own and fetches
ExportStart(u) ==
    /\ epc \in {"idle", "done"}
    /\ IF CheckCache(u) /= NoResult
       THEN epc' = "done" /\ eurl' = "none"
       ELSE epc' = "fetch" /\ eurl' = u
    /\ UNCHANGED <<processing_urls, cache, now, enable_cache, configVars, accessVars, batchVars>>

\* fetch_webpage and extract_content of the export command
ExportFetchReturn(out) ==
    /\ epc = "fetch"
    /\ IF out = "ok"
       THEN epc' = "llm" /\ UNCHANGED eurl
       ELSE epc' = "done" /\ eurl' = "none"
    /\ UNCHANGED <<processing_urls, cache, now, enable_cache, configVars, accessVars, batchVars>>

\* an export that writes its fresh result to the cache
ExportLlmReturnCaches(out) ==
    /\ epc = "llm"
    /\ epc' = "done"
    /\ eurl' = "none"
    /\ cache' = UpdateCache(eurl, ResultData(eurl, AnalyzeWithLlm(out), "none"))
    /\ UNCHANGED <<processing_urls, now, enable_cache, configVars, accessVars, batchVars>>

\* analyze_with_llm of the export command, then the export itself
ExportLlmReturn(out) ==
    /\ epc = "llm"
    /\ epc' = "done"
    /\ eurl' = "none"
    /\ UNCHANGED <<processing_urls, cache, now, enable_cache, configVars, accessVars, batchVars>>

\* ------------------------------------------------------- administration
\* manage_cache, action "clear"
CacheClearCmd ==
    /\ cache' = CacheClear(cache)
    /\ UNCHANGED <<processing_urls, now, enable_cache, configVars, accessVars, batchVars, exportVars>>

\* manage_cache without an action: the statistics CacheStats(cache, now) are
\* shown
CacheStatsCmd ==
    /\ cache' = CacheAfterStats(cache, now)
    /\ UNCHANGED <<processing_urls, now, enable_cache, configVars, accessVars, batchVars, exportVars>>

\* ------------------------------------------------- the cache on its own
\* URLs written to the cache, more of them than the cache can hold; a URL
\* new to the cache is taken in this order
CacheUrls == <<"url01", "url02", "url03", "url04", "url05", "url06",
               "url07", "url08", "url09", "url10", "url11", "url12">>

\* the URL that is analysed again and again
RewrittenUrl == CacheUrls[1]

\* positions of the URLs that have no entry
FreeUrls(c) == {i \in DOMAIN CacheUrls : ~CacheHas(c, CacheUrls[i])}

\* the writes drawn: the first URL without an entry with its report, and
\* RewrittenUrl, once it has an entry, with the report or the basic analysis
CacheWrites(c) ==
    {<<CacheUrls[i], "analysis">> : i \in {j \in FreeUrls(c) : \A k \in FreeUrls(c) : j <= k}}
        \cup (IF CacheHas(c, RewrittenUrl)
              THEN {<<RewrittenUrl, "analysis">>, <<RewrittenUrl, "basic">>}
              ELSE {})

\* the tail of a successful _process_single_url for url: _update_cache
CacheWrite(url, text) ==
    /\ cache' = WriteThrough(url, ResultData(url, text, "img"))
    /\ UNCHANGED <<processing_urls, now, enable_cache, configVars, accessVars, batchVars, exportVars>>

\* the head of _process_single_url for url: _check_cache
CacheRead(url) ==
    /\ enable_cache
    /\ cache' = CacheAfterGet(cache, url, now)
    /\ UNCHANGED <<processing_urls, now, enable_cache, configVars, accessVars, batchVars, exportVars>>

\* manage_cache, action "clear": the total shown in the reply, taken from
\* get_stats after the clear
ClearReplyTotal == CacheStats(CacheClear(cache), now).total

\* clock ticks made so far
Ticks == 2 * (now \div cache_expire_time) + (IF now % cache_expire_time = 0 THEN 0 ELSE 1)

\* time passes: to the last instant before an expiry window closes, then to
\* the instant it closes
Tick ==
    /\ Ticks < MaxTicks
    /\ now' = IF now % cache_expire_time = 0
              THEN now + cache_expire_time - 1
              ELSE now + 1
    /\ UNCHANGED <<processing_urls, cache, enable_cache, configVars, accessVars, batchVars, exportVars>>

\* ------------------------------------------------------- specifications
\* outcomes drawn where two batches run side by side: the report or an
\* exception, the screenshot or an exception
LlmCore == {"text", "raise"}
ShotCore == {"img", "raise"}

\* the steps of a batch once it has started
BatchRun(b, llm, shot) ==
    \/ AcquireOk(b)
    \/ AcquireFail(b)
    \/ \E i \in DOMAIN tasks[b] : TaskStart(b, i)
    \/ \E i \in DOMAIN tasks[b], out \in FetchOutcomes : FetchReturn(b, i, out)
    \/ \E i \in DOMAIN tasks[b], out \in llm : LlmReturn(b, i, out)
    \/ \E i \in DOMAIN tasks[b], out \in shot : ShotReturn(b, i, out)
    \/ GatherDone(b)
    \/ Deliver(b)
    \/ Finish(b)
    \/ Cancel(b)
    \/ Abandon(b)
    \/ Finalize(b)

BatchStep(b, lists, llm, shot) ==
    \/ \E us \in lists : analyze_webpage(b, us)
    \/ \E us \in lists : auto_detect_urls(b, us)
    \/ BatchRun(b, llm, shot)

ExportStep ==
    \/ \E u \in URLS : ExportStart(u)
    \/ \E out \in FetchOutcomes : ExportFetchReturn(out)
    \/ \E out \in LlmCalls : ExportLlmReturn(out)

\* two batches side by side, the cache command and the clock
Next ==
    \/ \E b \in Batches : BatchStep(b, UrlLists, LlmCore, ShotCore)
    \/ CacheClearCmd
    \/ Tick

Spec == Init /\ [][Next]_vars

\* one batch with every outcome of its pipeline, the cache command and the
\* clock
NextOne ==
    \/ BatchStep(1, UrlLists, LlmOutcomes, ShotOutcomes)
    \/ SendFails(1)
    \/ CacheClearCmd
    \/ Tick

SpecOne == Init /\ [][NextOne]_vars

\* one batch beside the export command
NextExport ==
    \/ BatchStep(1, UrlLists, LlmCore, ShotCore)
    \/ ExportStep
    \/ CacheClearCmd
    \/ Tick

SpecExport == Init /\ [][NextExport]_vars

\* the plugin configured with domain lists, the cache switched on
InitDomain ==
    /\ InitCore
    /\ enable_cache = TRUE
    /\ allowed_domains \in DomainLists
    /\ blocked_domains \in DomainLists
    /\ auto_analyze = TRUE
    /\ group_blacklist = << >>
    /\ config = << >>
    /\ config_file = << >>
    /\ event = PlainEvent
    /\ ConstructCache(DefaultSettings)

\* one batch beside the export command, under the domain lists
NextDomain ==
    \/ BatchStep(1, UrlLists, LlmCore, ShotCore)
    \/ ExportStep

SpecDomain == InitDomain /\ [][NextDomain]_vars

\* the plugin configured with auto-detection on or off and a group
\* blacklist, any message at hand
InitAuto ==
    /\ InitCore
    /\ enable_cache = TRUE
    /\ allowed_domains = << >>
    /\ blocked_domains = << >>
    /\ auto_analyze \in BOOLEAN
    /\ config \in {<< >>, <<"g1">>}
    /\ group_blacklist = ParseGroupList(config)
    /\ config_file = config
    /\ event \in Events
    /\ ConstructCache(DefaultSettings)

\* the platform hands the next message to the handlers
Receive(ev) ==
    /\ event' = ev
    /\ UNCHANGED <<processing_urls, cache, now, enable_cache, configVars, batchVars, exportVars,
                   allowed_domains, blocked_domains, auto_analyze, group_blacklist,
                   config, config_file>>

\* auto-detection alone: the messages, the handler and its batch
NextAuto ==
    \/ \E ev \in Events : Receive(ev)
    \/ \E us \in UrlLists : auto_detect_urls(1, us)
    \/ BatchRun(1, LlmCore, ShotCore)

SpecAuto == InitAuto /\ [][NextAuto]_vars

\* ------------------------------------------ export_analysis_result (all)
\* format words of the command, and supported_formats
ExportFormats == {"md", "markdown", "json", "txt", "pdf"}
SupportedFormats == {"md", "markdown", "json", "txt"}

\* the command with the word all: an unsupported format is answered; else
\* the handler reads self.cache, an attribute the plugin never sets (its
\* cache is self.cache_manager), before its try block: AttributeError ends
\* the handler
ExportAll(format_type) ==
    /\ epc \in {"idle", "done", "raised"}
    /\ epc' = IF format_type \notin SupportedFormats THEN "done" ELSE "raised"
    /\ eurl' = "none"
    /\ UNCHANGED <<processing_urls, cache, now, enable_cache, configVars, accessVars, batchVars>>

\* --------------------------------------------------- the group blacklist
\* list.remove: the first occurrence goes
RemoveFirst(list, group_id) ==
    LET p == CHOOSE i \in DOMAIN list :
                 list[i] = group_id /\ \A j \in 1..(i - 1) : list[j] # group_id IN
    SubSeq(list, 1, p - 1) \o SubSeq(list, p + 1, Len(list))

\* outcomes of config.save_config()
SaveOutcomes == {"ok", "error"}

\* _save_group_blacklist for the new list: the joined text is put into the
\* config and saved; an exception of the save is logged and swallowed
SaveGroupBlacklist(list, save) ==
    /\ config' = JoinLines(list)
    /\ config_file' = IF save = "ok" THEN JoinLines(list) ELSE config_file

\* manage_group_blacklist: the command with its action word ("" when there
\* is none) and its group id ("" when there is none)
manage_group_blacklist(action, group_id, save) ==
    /\ IF action = "add" /\ group_id # ""
       THEN IF group_id \in Range(group_blacklist)
            THEN UNCHANGED <<group_blacklist, config, config_file>>
            ELSE /\ group_blacklist' = Append(group_blacklist, group_id)
                 /\ SaveGroupBlacklist(group_blacklist', save)
       ELSE IF action = "remove" /\ group_id # ""
       THEN IF group_id \notin Range(group_blacklist)
            THEN UNCHANGED <<group_blacklist, config, config_file>>
            ELSE /\ group_blacklist' = RemoveFirst(group_blacklist, group_id)
                 /\ SaveGroupBlacklist(group_blacklist', save)
       ELSE IF action = "clear" /\ group_blacklist # << >>
       THEN /\ group_blacklist' = << >>
            /\ SaveGroupBlacklist(group_blacklist', save)
       ELSE UNCHANGED <<group_blacklist, config, config_file>>
    /\ UNCHANGED <<processing_urls, cache, now, enable_cache, configVars, batchVars, exportVars,
                   allowed_domains, blocked_domains, auto_analyze, event>>

\* action words and group ids of the command
BlacklistActions == {"", "add", "remove", "clear", "list"}

\* texts of the group_blacklist setting at start-up
GroupTexts == {<< >>, <<"g1">>, <<"g1", "\n", "g1">>, <<"g2", "\n", "\n", "g3">>}

\* the plugin constructed from a saved group_blacklist text
InitBlacklist ==
    /\ InitCore
    /\ enable_cache = TRUE
    /\ allowed_domains = << >>
    /\ blocked_domains = << >>
    /\ auto_analyze = TRUE
    /\ config \in GroupTexts
    /\ group_blacklist = ParseGroupList(config)
    /\ config_file = config
    /\ event = PlainEvent
    /\ ConstructCache(DefaultSettings)

NextBlacklist ==
    \E action \in BlacklistActions, group_id \in Groups \cup {""}, save \in SaveOutcomes :
        manage_group_blacklist(action, group_id, save)

SpecBlacklist == InitBlacklist /\ [][NextBlacklist]_vars

\* the plugin configured with the cache switched on
InitCache == Init /\ enable_cache = TRUE

\* the cache under the writes and reads of the pipeline, the cache commands
\* and the clock
NextCache ==
    \/ \E w \in CacheWrites(cache) : CacheWrite(w[1], w[2])
    \/ \E i \in DOMAIN CacheUrls : CacheRead(CacheUrls[i])
    \/ CacheStatsCmd
    \/ CacheClearCmd
    \/ Tick

SpecCache == InitCache /\ [][NextCache]_vars

\* the plugin constructed from any of the cache settings, the cache on
InitConfig ==
    /\ InitCore
    /\ enable_cache = TRUE
    /\ allowed_domains = << >>
    /\ blocked_domains = << >>
    /\ auto_analyze = TRUE
    /\ group_blacklist = << >>
    /\ config = << >>
    /\ config_file = << >>
    /\ event = PlainEvent
    /\ \E settings \in CacheSettings : ConstructCache(settings)

\* the cache under its writes, reads and commands, whatever it was
\* constructed with
NextConfig == NextCache

SpecConfig == InitConfig /\ [][NextConfig]_vars

\* the cache as in SpecCache, beside the export of all cached results
NextExportAll ==
    \/ NextCache
    \/ \E format_type \in ExportFormats : ExportAll(format_type)

SpecExportAll == InitCache /\ [][NextExportAll]_vars

\* the plugin configured with the cache switched off
InitNoCache == Init /\ enable_cache = FALSE

\* the event loop's finalizer hook closes every async generator that was
\* dropped while suspended
SpecFair == InitNoCache /\ [][Next]_vars /\ \A b \in Batches : WF_vars(Finalize(b))

\* ----------------------------------------------------------- properties
NoDuplicates(seq) == \A i, j \in DOMAIN seq : seq[i] = seq[j] => i = j

\* the pipeline (fetch, extract, summarize, screenshot) of task i of batch b
\* is in progress
InPipeline(b, i) == tasks[b][i].pc \in {"fetch", "llm", "shot"}

BatchRuns(u) ==
    {<<b, i>> \in Batches \X (1..MaxBatchLen) :
        /\ i \in DOMAIN tasks[b]
        /\ filtered_urls[b][i] = u
        /\ InPipeline(b, i)}

ExportRuns(u) == IF epc \in {"fetch", "llm"} /\ eurl = u THEN 1 ELSE 0

\* C1: at no reachable state are two pipeline runs for the same URL in
\* progress at the same time, whichever operations started them (a batch of
\* the manual command, a batch of auto-detection, the export command on a
\* cache miss).
C1_AtMostOneRunPerUrl ==
    \A u \in URLS : Cardinality(BatchRuns(u)) + ExportRuns(u) <= 1

\* C2: admission has set semantics: the admitted list has no URL twice, holds
\* no URL that was in flight when the batch started (a URL another batch
\* holds is left out, without an error), and holds every other URL of the
\* input.
C2_AdmissionSetSemantics ==
    [][\A b \in Batches :
        (pc[b] \in Ended /\ pc'[b] # pc[b]) =>
            /\ pc'[b] \in {"aenter", "skipped"}
            /\ NoDuplicates(filtered_urls'[b])
            /\ Range(filtered_urls'[b]) \cap processing_urls = {}
            /\ pc'[b] = "aenter" =>
                    Range(filtered_urls'[b]) = Range(urls'[b]) \ processing_urls]_vars

\* one batch was handed the same URL twice and admitted it once, while the
\* other was handed that URL too and left it out
C2_Witness ==
    \E b1, b2 \in Batches :
        /\ b1 # b2
        /\ pc[b1] = "aenter" /\ pc[b2] = "aenter"
        /\ Len(urls[b1]) = 2 /\ urls[b1][1] = urls[b1][2]
        /\ Len(filtered_urls[b1]) = 1
        /\ urls[b1][1] \in Range(urls[b2])
        /\ urls[b1][1] \notin Range(filtered_urls[b2])

\* C3: every URL a batch admitted is released when the batch ends, on every
\* exit path, in one release step per batch: a step that ends a batch removes
\* exactly its admitted URLs, no other step removes a URL, and once no batch
\* is running the in-flight set is empty.
C3_ReleasedOnEveryExit ==
    /\ []((\A b \in Batches : pc[b] \in Ended) => processing_urls = {})
    /\ [][/\ \A b \in Batches :
                (pc[b] \in Running /\ pc'[b] \in Ended) =>
                    processing_urls' = processing_urls \ Range(filtered_urls[b])
          /\ ~(processing_urls \subseteq processing_urls') =>
                \E b \in Batches : pc[b] \in Running /\ pc'[b] \in Ended]_vars

\* one batch has ended with an exception, the other by cancellation, and
\* nothing is left in flight
C3_Witness ==
    \E b1, b2 \in Batches :
        /\ pc[b1] = "raised"
        /\ pc[b2] = "cancelled"
        /\ processing_urls = {}

\* C4: an admitted URL is in the in-flight set in every state from its
\* admission until its batch has ended, and is not left in the set after
\* that: the in-flight set is exactly the URLs admitted by the running
\* batches.
C4_InFlightWhileRunning ==
    /\ \A b \in Batches :
          pc[b] \in Running => Range(filtered_urls[b]) \subseteq processing_urls
    /\ \A u \in processing_urls :
          \E b \in Batches : pc[b] \in Running /\ u \in Range(filtered_urls[b])

\* a batch with a failed and a successful URL is handing over its results,
\* both URLs still in flight, while the other batch has ended
C4_Witness ==
    \E b1, b2 \in Batches :
        /\ pc[b1] = "send" /\ sent[b1] = 1
        /\ Len(analysis_results[b1]) = 2
        /\ analysis_results[b1][1].result \in ErrorTexts
        /\ analysis_results[b1][2].result = "analysis"
        /\ Range(filtered_urls[b1]) = processing_urls
        /\ pc[b2] = "cancelled"

\* C5: when the surrounding operation is cancelled while the batch awaits its
\* tasks, its admitted URLs leave the in-flight set in that step; when the
\* batch is abandoned while suspended at a yield, they leave it eventually.
C5_ReleasedAfterCancel ==
    /\ [][\A b \in Batches :
            (pc[b] \in Running /\ pc'[b] = "cancelled") =>
                Range(filtered_urls[b]) \cap processing_urls' = {}]_vars
    /\ \A b \in Batches, u \in URLS :
            (pc[b] = "abandoned" /\ u \in Range(filtered_urls[b]))
                ~> (u \notin processing_urls)

\* a batch was abandoned after its first result, its URLs still in flight
C5_Witness ==
    \E b \in Batches :
        /\ pc[b] = "abandoned"
        /\ sent[b] = 1
        /\ Len(filtered_urls[b]) = 2
        /\ Range(filtered_urls[b]) \subseteq processing_urls

\* C6: when acquiring the client fails, the batch ends by raising to its
\* caller: it has produced and handed over no result, has opened no client,
\* and its admitted URLs are out of the in-flight set in the state the caller
\* sees the error in. A batch ends by raising on no other path.
C6_AcquireFailureSurfaced ==
    /\ [](\A b \in Batches :
            pc[b] = "raised" =>
                /\ analysis_results[b] = << >>
                /\ sent[b] = 0
                /\ tasks[b] = << >>
                /\ analyzer[b] = "none")
    /\ [][\A b \in Batches :
            /\ (pc[b] = "aenter" /\ pc'[b] # "aenter") =>
                    pc'[b] \in {"gather", "raised", "cancelled"}
            /\ (pc[b] # "raised" /\ pc'[b] = "raised") =>
                    /\ pc[b] = "aenter"
                    /\ analyzer[b] = "none"
                    /\ sent[b] = 0
                    /\ Range(filtered_urls[b]) # {}
                    /\ Range(filtered_urls[b]) \cap processing_urls' = {}
                    /\ processing_urls' = processing_urls \ Range(filtered_urls[b])]_vars

\* the acquisition of one batch has failed while the other batch is still
\* awaiting its tasks: only the URLs of the running batch are in flight
C6_Witness ==
    \E b1, b2 \in Batches :
        /\ pc[b1] = "raised"
        /\ pc[b2] = "gather"
        /\ processing_urls = Range(filtered_urls[b2])
        /\ processing_urls # URLS

\* C7: a batch that admits nothing (every URL of its input is in flight)
\* returns at once: no client is opened, no task is created, no result is
\* produced, and the in-flight set and the cache are as they were. A batch
\* goes on to acquire the client only when some URL of its input was not in
\* flight.
C7_EmptyAdmissionReturns ==
    /\ [](\A b \in Batches :
            /\ pc[b] \in Running => filtered_urls[b] # << >>
            /\ pc[b] = "skipped" =>
                /\ filtered_urls[b] = << >>
                /\ analyzer[b] = "none"
                /\ tasks[b] = << >>
                /\ analysis_results[b] = << >>
                /\ sent[b] = 0)
    /\ [][\A b \in Batches :
            (pc[b] \in Ended /\ pc'[b] # pc[b]) =>
                IF pc'[b] = "skipped"
                THEN /\ processing_urls' = processing_urls
                     /\ processing_urls # {}
                     /\ cache' = cache
                     /\ analyzer'[b] = "none"
                     /\ tasks'[b] = << >>
                ELSE /\ pc'[b] = "aenter"
                     /\ ~(Range(urls'[b]) \subseteq processing_urls)]_vars

\* a batch has returned at once because the other batch, still awaiting its
\* tasks, holds every URL
C7_Witness ==
    \E b1, b2 \in Batches :
        /\ pc[b1] = "skipped"
        /\ pc[b2] = "gather"
        /\ processing_urls = URLS
        /\ \E i \in DOMAIN tasks[b2] : InPipeline(b2, i)

\* C8: the result list of a batch has one entry per admitted URL, the i-th
\* entry being the result the task of the i-th admitted URL returned, in
\* whatever order the tasks finished; a batch that runs to its end has handed
\* over every entry.
C8_ResultsInAdmissionOrder ==
    /\ [](\A b \in Batches :
            pc[b] \in {"send", "abandoned"} =>
                /\ Len(analysis_results[b]) = Len(filtered_urls[b])
                /\ \A i \in DOMAIN filtered_urls[b] :
                        analysis_results[b][i].url = filtered_urls[b][i]
                /\ sent[b] <= Len(analysis_results[b]))
    /\ [][\A b \in Batches :
            /\ (pc[b] = "gather" /\ pc'[b] = "send") =>
                    /\ Range(completed[b]) = DOMAIN filtered_urls[b]
                    /\ \A i \in DOMAIN filtered_urls[b] :
                            analysis_results'[b][i] = tasks[b][i].result
            /\ (pc[b] = "send" /\ pc'[b] = "done") =>
                    sent[b] = Len(filtered_urls[b])]_vars

\* the second task finished first, and the results are in the order of the
\* admitted URLs
C8_Witness ==
    \E b \in Batches :
        /\ pc[b] = "send"
        /\ completed[b] = <<2, 1>>
        /\ filtered_urls[b] = <<"urlA", "urlB">>
        /\ analysis_results[b][1].url = "urlA"
        /\ analysis_results[b][2].url = "urlB"

\* task i of batch b has just left its cache check
LeavesCheck(b, i) ==
    /\ pc[b] = "gather"
    /\ i \in DOMAIN tasks[b]
    /\ tasks[b][i].pc = "new"
    /\ i \in DOMAIN tasks'[b]
    /\ tasks'[b][i].pc # "new"

\* C9: a task whose URL has a valid cache entry returns the cached result
\* from its cache check, without touching the cache, and never enters the
\* pipeline afterwards; a task whose URL misses goes on to fetch. No task is
\* in the pipeline for a URL that has a valid entry, and the result list
\* carries the cached result at the position of its URL.
C9_CachedResultUsed ==
    /\ [](\A b \in Batches : \A i \in DOMAIN tasks[b] :
            InPipeline(b, i) => CacheGet(cache, filtered_urls[b][i], now) = NoResult)
    /\ [][\A b \in Batches : \A i \in DOMAIN filtered_urls[b] :
            /\ LeavesCheck(b, i) =>
                  IF CacheGet(cache, filtered_urls[b][i], now) # NoResult
                  THEN /\ tasks'[b][i].pc = "hit"
                       /\ tasks'[b][i].result = CacheGet(cache, filtered_urls[b][i], now)
                       /\ cache' = cache
                  ELSE tasks'[b][i].pc = "fetch"
            /\ (i \in DOMAIN tasks[b] /\ tasks[b][i].pc = "hit") =>
                  \/ i \in DOMAIN tasks'[b] /\ tasks'[b][i] = tasks[b][i]
                  \/ pc'[b] = "send" /\ analysis_results'[b][i] = tasks[b][i].result
                  \/ pc'[b] = "cancelled"]_vars

\* a batch of two URLs at a later clock value than the entry was written at:
\* the first URL has missed and is being fetched, the second has a valid
\* entry and its task has returned the entry's value
C9_Witness ==
    \E b \in Batches :
        /\ pc[b] = "gather"
        /\ Len(tasks[b]) = 2
        /\ tasks[b][1].pc = "fetch"
        /\ tasks[b][2].pc = "hit"
        /\ now > 0
        /\ CacheGet(cache, filtered_urls[b][2], 0) = tasks[b][2].result
        /\ CacheGet(cache, filtered_urls[b][1], now) = NoResult

\* task i of batch b returns in this step
TaskReturns(b, i) ==
    /\ i \in DOMAIN tasks[b]
    /\ tasks[b][i].pc \notin Returned
    /\ i \in DOMAIN tasks'[b]
    /\ tasks'[b][i].pc = "done"

C11_SummarizerErrorNotCached ==
    \A k \in DOMAIN cache :
        cache[k].value.result # AnalyzeWithLlm("error")

\* C12 as stated: whenever the language-model call of a task has failed, the
\* text the task carries on is the basic analysis.
C12_FallbackOnLlmFailure ==
    \A b \in Batches : \A i \in DOMAIN tasks[b] :
        tasks[b][i].llm = "error" => tasks[b][i].analysis = "basic"

\* C12 as amended: a task carries the basic analysis exactly when no model
\* could be called or the completion was empty; when the call has raised it
\* carries the error text of analyze_with_llm, and when the model answered it
\* carries the report. A task carries a text only between analyze_with_llm
\* and the screenshot.
C12_FallbackOnlyWithoutModel ==
    \A b \in Batches : \A i \in DOMAIN tasks[b] :
        /\ tasks[b][i].llm = "error" => tasks[b][i].analysis = "llm_error"
        /\ tasks[b][i].llm \in {"empty", "unavailable"} => tasks[b][i].analysis = "basic"
        /\ tasks[b][i].llm = "text" => tasks[b][i].analysis = "analysis"
        /\ tasks[b][i].pc = "shot" <=> tasks[b][i].llm \in LlmCalls
        /\ tasks[b][i].pc # "shot" => tasks[b][i].analysis = "none"

\* the model call of the first task has raised and the second task had no
\* model to call: both are at the screenshot, one with the error text, the
\* other with the basic analysis
C12_Witness ==
    \E b \in Batches :
        /\ Len(tasks[b]) = 2
        /\ tasks[b][1].pc = "shot" /\ tasks[b][1].llm = "error"
        /\ tasks[b][1].analysis = "llm_error"
        /\ tasks[b][2].pc = "shot" /\ tasks[b][2].llm = "unavailable"
        /\ tasks[b][2].analysis = "basic"

\* C13: the batch goes on to hand over results only when every task of its
\* admitted URLs has returned; the step in which a task returns, with an
\* error result or not, leaves every sibling task as it was and the batch
\* still waiting, and a task that has not returned is only ever ended by the
\* cancellation of the whole batch.
C13_WaitsForAllTasks ==
    [][\A b \in Batches :
        /\ (pc[b] = "gather" /\ pc'[b] = "send") =>
                /\ Len(tasks[b]) = Len(filtered_urls[b])
                /\ \A i \in DOMAIN tasks[b] : tasks[b][i].pc \in Returned
        /\ \A i \in DOMAIN filtered_urls[b] :
                TaskReturns(b, i) =>
                    /\ pc'[b] = "gather"
                    /\ \A j \in DOMAIN tasks[b] : j # i => tasks'[b][j] = tasks[b][j]
        /\ \A i \in DOMAIN tasks[b] :
                (tasks[b][i].pc \notin Returned /\ i \notin DOMAIN tasks'[b])
                    => pc'[b] = "cancelled"]_vars

\* the first task has returned an error result, and after it the second
\* task has run its whole pipeline and returned the report; the batch is
\* still at gather
C13_Witness ==
    \E b \in Batches :
        /\ pc[b] = "gather"
        /\ completed[b] = <<1, 2>>
        /\ tasks[b][1].result.result \in ErrorTexts
        /\ tasks[b][2].pc = "done"
        /\ tasks[b][2].result.result = "analysis"
        /\ tasks[b][2].result.screenshot = "img"

C15_OneClientPerBatch ==
    /\ [](\A b \in Batches :
            /\ analyzer[b] = "open" <=> pc[b] = "gather"
            /\ tasks[b] # << >> <=> pc[b] = "gather"
            /\ pc[b] = "gather" => Len(tasks[b]) = Len(filtered_urls[b]))
    /\ [][\A b \in Batches :
            /\ (analyzer[b] = "none" /\ analyzer'[b] = "open") =>
                    /\ pc[b] = "aenter" /\ pc'[b] = "gather"
                    /\ filtered_urls[b] # << >>
                    /\ \A i \in DOMAIN filtered_urls[b] : tasks'[b][i] = NewTask
            /\ (analyzer[b] = "open" /\ analyzer'[b] = "none") =>
                    /\ pc[b] = "gather" /\ pc'[b] \in {"send", "cancelled"}
                    /\ tasks'[b] = << >>
            /\ pc'[b] = "gather" => pc[b] \in {"aenter", "gather"}
            /\ (pc[b] = "aenter" /\ pc'[b] \in {"raised", "cancelled"}) =>
                    analyzer'[b] = "none"]_vars

\* one batch awaits its two tasks, both in their pipeline, with its client
\* open, while the other batch has handed over its results and ended with
\* its client closed
C15_Witness ==
    \E b1, b2 \in Batches :
        /\ pc[b1] = "gather" /\ analyzer[b1] = "open"
        /\ Len(tasks[b1]) = 2
        /\ InPipeline(b1, 1) /\ InPipeline(b1, 2)
        /\ pc[b2] = "done" /\ analyzer[b2] = "none"

\* a result of batch b is handed to the consumer in this step
Delivers(b) == sent'[b] = sent[b] + 1

C17_WriteThrough ==
    [][/\ \A b \in Batches : \A i \in DOMAIN filtered_urls[b] :
            LET url == filtered_urls[b][i] IN
            /\ (TaskReturns(b, i) /\ tasks'[b][i].result.result \notin ErrorTexts
                    /\ enable_cache) =>
                  /\ pc'[b] = "gather"
                  /\ CacheHas(cache', url)
                  /\ cache'[CachePos(cache', url)] =
                        CacheEntry(url, tasks'[b][i].result, now)
            /\ (LeavesCheck(b, i) /\ enable_cache /\ CacheHas(cache, url)
                    /\ now < cache[CachePos(cache, url)].expires_at) =>
                  tasks'[b][i] = TaskHit(cache[CachePos(cache, url)].value)
       /\ \A k \in DOMAIN cache :
            cache' = << >> \/ CacheHas(cache', cache[k].key)]_vars

\* at the last instant of the expiry window of an entry written at time 0,
\* a later batch for the same URL has returned the stored report from its
\* cache check
C17_Witness ==
    \E b \in Batches :
        /\ pc[b] = "gather"
        /\ Len(tasks[b]) = 1
        /\ now = cache_expire_time - 1
        /\ CacheHas(cache, filtered_urls[b][1])
        /\ cache[CachePos(cache, filtered_urls[b][1])].expires_at = cache_expire_time
        /\ tasks[b][1] = TaskHit(ResultData(filtered_urls[b][1], "analysis", "img"))

\* keys of the entries of a cache
CacheKeys(c) == {c[i].key : i \in DOMAIN c}

\* C18: in every reachable state the cache holds at most max_cache_size
\* entries, no two of them under the same key, whatever sequence of writes,
\* reads, statistics and clear commands led to it.
C18_SizeWithinCapacity ==
    /\ Len(cache) <= max_cache_size
    /\ \A i, j \in DOMAIN cache : cache[i].key = cache[j].key => i = j

\* the cache is full, and has been full before: the first URL was evicted
\* by a URL beyond the capacity and then written again, which evicted the
\* second
C18_Witness ==
    /\ Len(cache) = max_cache_size
    /\ cache[Len(cache)].key = CacheUrls[1]
    /\ cache[Len(cache) - 1].key = CacheUrls[max_cache_size + 1]
    /\ Head(cache).key = CacheUrls[3]

\* C19: a step that brings a new key into a full cache removes the head of
\* the insertion order (the oldest-inserted entry, whatever its expiry time)
\* and nothing else, and puts the new entry last; below capacity the new
\* entry is put last and nothing is removed. No other step changes the order
\* of the entries or removes one, except clear: a read changes nothing.
C19_FifoEviction ==
    [][(cache' # cache /\ cache' # << >>) =>
        IF CacheKeys(cache') \subseteq CacheKeys(cache)
        THEN /\ Len(cache') = Len(cache)
             /\ \A i \in DOMAIN cache : cache'[i].key = cache[i].key
        ELSE /\ cache'[Len(cache')].key \notin CacheKeys(cache)
             /\ IF Len(cache) >= max_cache_size
                THEN /\ Len(cache') = Len(cache)
                     /\ \A i \in 1..(Len(cache) - 1) : cache'[i] = cache[i + 1]
                     /\ Head(cache).key \notin CacheKeys(cache')
                ELSE /\ Len(cache') = Len(cache) + 1
                     /\ \A i \in DOMAIN cache : cache'[i] = cache[i]]_vars

\* the cache is full after one eviction: the first URL is gone, the second
\* is now the oldest, and the URL that came in is last
C19_Witness ==
    /\ Len(cache) = max_cache_size
    /\ ~CacheHas(cache, CacheUrls[1])
    /\ Head(cache).key = CacheUrls[2]
    /\ cache[Len(cache)].key = CacheUrls[max_cache_size + 1]

\* C20: a step that writes a key the cache already holds leaves every key at
\* its place, so that nothing is evicted even in a full cache, changes no
\* other entry, and leaves under the key an entry whose expiry window starts
\* at the time of the write.
C20_OverwriteInPlace ==
    [][\A k \in CacheKeys(cache) :
        (CacheHas(cache', k) /\ cache'[CachePos(cache', k)] # cache[CachePos(cache, k)]) =>
            /\ Len(cache') = Len(cache)
            /\ \A i \in DOMAIN cache :
                    /\ cache'[i].key = cache[i].key
                    /\ cache[i].key # k => cache'[i] = cache[i]
            /\ cache'[CachePos(cache', k)].expires_at = now + cache_expire_time
            /\ cache'[CachePos(cache', k)].value.url = k]_vars

\* the cache is full, all of the first max_cache_size URLs in it, and its
\* oldest entry was overwritten with the basic analysis after the newest
\* entry came in: it expires later than the newest
C20_Witness ==
    /\ Len(cache) = max_cache_size
    /\ \A i \in DOMAIN cache : cache[i].key = CacheUrls[i]
    /\ Head(cache).value.result = "basic"
    /\ Head(cache).expires_at > cache[Len(cache)].expires_at

\* C21: a read of a key answers with the stored value exactly while
\* now < expires_at of its entry, and with a miss from the instant
\* now = expires_at on, the entry still being counted in the total of the
\* statistics; a write leaves the key readable, with a window that ends
\* cache_expire_time after the write.
C21_ExpiryBoundary ==
    /\ [](\A i \in DOMAIN cache :
            /\ CheckCache(cache[i].key) =
                  (IF now < cache[i].expires_at THEN cache[i].value ELSE NoResult)
            /\ cache[i].value # NoResult
            /\ cache[i].expires_at <= now + cache_expire_time
            /\ CacheStats(cache, now).total >= i)
    /\ [][\A i \in DOMAIN cache' :
            (i \notin DOMAIN cache \/ cache'[i] # cache[i]) =>
                \/ cache'[i].expires_at = now + cache_expire_time
                      /\ CacheGet(cache', cache'[i].key, now) = cache'[i].value
                \/ i \in DOMAIN cache /\ i + 1 \in DOMAIN cache /\ cache'[i] = cache[i + 1]]_vars

\* at the instant the window of one entry closes, that entry reads as a
\* miss and is still counted, while an entry written one instant before
\* that reads as a hit
C21_Witness ==
    \E i, j \in DOMAIN cache :
        /\ cache[i].expires_at = now
        /\ CheckCache(cache[i].key) = NoResult
        /\ cache[j].expires_at = now + cache_expire_time - 1
        /\ CheckCache(cache[j].key) = cache[j].value
        /\ CacheStats(cache, now).total = Len(cache)

\* C22: the statistics count every entry in total, as valid the entries a
\* read would answer, and as expired the rest, all zero on an empty cache;
\* showing them changes nothing: only a clear shortens the cache, and
\* expired entries stay in it.
C22_StatsReadOnly ==
    /\ [](LET st == CacheStats(cache, now) IN
            /\ st.total = Cardinality(CacheKeys(cache))
            /\ st.valid = Cardinality({k \in CacheKeys(cache) : CheckCache(k) # NoResult})
            /\ st.expired = st.total - st.valid
            /\ st.expired = Cardinality({k \in CacheKeys(cache) : CheckCache(k) = NoResult})
            /\ cache = << >> => st = [total |-> 0, valid |-> 0, expired |-> 0])
    /\ [][(cache' # cache /\ cache' # << >>) =>
            /\ Len(cache') >= Len(cache)
            /\ CacheStats(cache', now).total >= CacheStats(cache, now).total]_vars

\* two entries, of which the older has expired: the statistics are
\* total 2, valid 1, expired 1
C22_Witness ==
    /\ Len(cache) = 2
    /\ cache[1].expires_at <= now
    /\ now < cache[2].expires_at
    /\ CacheStats(cache, now) = [total |-> 2, valid |-> 1, expired |-> 1]

\* C23: clear leaves no entry whatever the cache held, so that the
\* statistics taken right after it, and the total the clear command
\* reports, are zero; a second clear changes nothing more; and the step that
\* empties a cache leaves every key a miss.
C23_ClearEmpties ==
    /\ [](/\ CacheClear(cache) = << >>
          /\ CacheStats(CacheClear(cache), now) = [total |-> 0, valid |-> 0, expired |-> 0]
          /\ ClearReplyTotal = 0
          /\ CacheClear(CacheClear(cache)) = CacheClear(cache))
    /\ [][(Len(cache') < Len(cache)) =>
            /\ cache' = << >>
            /\ \A i \in DOMAIN cache : CacheGet(cache', cache[i].key, now) = NoResult]_vars

\* a task has returned a cached result, and the cache has been cleared
\* since: it is empty within the expiry window of the entry the task read
C23_Witness ==
    \E b \in Batches : \E i \in DOMAIN tasks[b] :
        /\ tasks[b][i].pc = "hit"
        /\ cache = << >>
        /\ tasks[b][i].result.result = "analysis"

\* the export command reads the cache for a URL and, on a miss, goes on to
\* analyse it
ExportReads == enable_cache /\ epc # "fetch" /\ epc' = "fetch"

\* a task of batch b writes its result to the cache
TaskWrites(b, i) == TaskReturns(b, i) /\ cache' # cache

\* C24: every read or write of the cache made for a URL while analysing it
\* is made while the URL is in the in-flight set on behalf of the accessor:
\* a task reads and writes the entry of a URL its own batch admitted and no
\* other batch holds, and the export command reads the entry of a URL that
\* is in flight and held by no batch.
C24_CacheAccessInFlight ==
    [][/\ \A b \in Batches : \A i \in DOMAIN tasks[b] :
            (LeavesCheck(b, i) \/ TaskWrites(b, i)) =>
                /\ filtered_urls[b][i] \in processing_urls
                /\ \A c \in Batches \ {b} : filtered_urls[b][i] \notin Range(filtered_urls[c])
       /\ ExportReads =>
            /\ eurl' \in processing_urls
            /\ \A b \in Batches : eurl' \notin Range(filtered_urls[b])]_vars

\* C25: a URL whose domain is on the blocked list is rejected even if it is
\* on the allowed list too; with a non-empty allowed list only the URLs whose
\* domain is on it are accepted; with an empty allowed list every URL that
\* is not blocked is accepted; and no rejected URL is ever admitted to a
\* batch, fetched or cached. (A domain is on a list when an entry of the
\* list occurs in the netloc of the URL, both in lower case.)
C25_DomainRule ==
    \A u \in URLS :
        LET domain == ToLower(Netloc(u))
            blocked == \E i \in DOMAIN blocked_domains :
                            Contains(domain, ToLower(blocked_domains[i]))
            allowed == \E i \in DOMAIN allowed_domains :
                            Contains(domain, ToLower(allowed_domains[i])) IN
        /\ blocked => ~IsDomainAllowed(u)
        /\ (allowed_domains # << >> /\ ~allowed) => ~IsDomainAllowed(u)
        /\ (allowed_domains # << >> /\ allowed /\ ~blocked) => IsDomainAllowed(u)
        /\ (allowed_domains = << >> /\ ~blocked) => IsDomainAllowed(u)
        /\ ~IsDomainAllowed(u) =>
            /\ u \notin processing_urls
            /\ \A b \in Batches : u \notin Range(filtered_urls[b])
            /\ BatchRuns(u) = {}
            /\ ExportRuns(u) = 0
            /\ ~CacheHas(cache, u)

\* C26: auto-detection starts a batch only when auto_analyze is enabled, the
\* message does not start with '/', the message is not a command invocation
\* and the group of the message is not blacklisted; for any other message,
\* with no batch under way, nothing is sent and neither the in-flight set nor
\* the cache changes.
C26_AutoDetectGuards ==
    [][LET slash == Strip(event.message_str) # << >> /\ Head(Strip(event.message_str)) = "/"
           listed == event.group_id \in Range(group_blacklist)
           refused == ~auto_analyze \/ slash \/ event.command \/ listed IN
       /\ \A b \in Batches :
            (pc[b] \in Ended /\ pc'[b] \in Running) => ~refused
       /\ (refused /\ \A b \in Batches : pc[b] \in Ended) =>
            UNCHANGED <<processing_urls, cache, pc, filtered_urls, tasks, sent>>]_vars

\* a batch started by a plain message has ended and filled the cache, and
\* the message now at hand, from a blacklisted group, leaves everything at
\* rest
C26_Witness ==
    /\ auto_analyze
    /\ ~AutoDetectSkipsNoBlacklist
    /\ event.group_id \in Range(group_blacklist)
    /\ pc[1] = "done"
    /\ cache # << >>
    /\ processing_urls = {}

\* C27: a group blacklist command adds a group to the end of the list,
\* removes one or empties the list; no group comes to be in the list twice;
\* and after every command that changes the list the persisted value of the
\* setting is the list joined by line breaks.
C27_BlacklistPersisted ==
    [][/\ \A g \in Groups :
            Cardinality({i \in DOMAIN group_blacklist' : group_blacklist'[i] = g})
                <= Max(1, Cardinality({i \in DOMAIN group_blacklist : group_blacklist[i] = g}))
       /\ group_blacklist' # group_blacklist =>
            /\ \/ group_blacklist' = << >>
               \/ \E g \in Groups \ Range(group_blacklist) :
                      group_blacklist' = Append(group_blacklist, g)
               \/ \E i \in DOMAIN group_blacklist :
                      group_blacklist' = SubSeq(group_blacklist, 1, i - 1)
                                            \o SubSeq(group_blacklist, i + 1, Len(group_blacklist))
            /\ config' = JoinLines(group_blacklist')
            /\ config_file' = JoinLines(group_blacklist')]_vars

\* C28: the export of all cached results writes one record per cached
\* result, or answers that there are none when the cache is empty, and
\* never ends in an unhandled error.
C28_ExportAllHandled ==
    epc # "raised"

\* C29: the cleanup of a batch removes only URLs that this batch admitted:
\* what a step that ends a batch takes out of the in-flight set is among the
\* admitted URLs of that batch, a batch that admits nothing takes nothing
\* out, and the admitted URLs of a batch that goes on running stay in the
\* set through every step, whatever the other batch was handed.
C29_CleanupOwnUrlsOnly ==
    [][\A x \in Batches :
        /\ (pc[x] \in Running /\ pc'[x] \in Running) =>
                /\ filtered_urls'[x] = filtered_urls[x]
                /\ Range(filtered_urls[x]) \subseteq processing_urls'
        /\ (pc[x] \in Running /\ pc'[x] \in Ended) =>
                (processing_urls \ processing_urls') \subseteq Range(filtered_urls[x])
        /\ (pc[x] # "skipped" /\ pc'[x] = "skipped") =>
                processing_urls' = processing_urls]_vars

\* batch x is in the pipeline for a URL it admitted; batch y, handed that
\* URL and another one, admitted only the other and is acquiring its client,
\* from where it ends by failure, cancellation or completion
C29_Witness ==
    \E x, y \in Batches :
        /\ x # y
        /\ pc[x] = "gather"
        /\ \E i \in DOMAIN tasks[x] : InPipeline(x, i) /\ filtered_urls[x][i] \in Range(urls[y])
        /\ pc[y] = "aenter"
        /\ Len(urls[y]) = 2
        /\ Len(filtered_urls[y]) = 1
        /\ Range(filtered_urls[y]) \cap Range(filtered_urls[x]) = {}

\* C30: the membership test and the add of the admission are one step, for
\* all URLs of the batch: the step that starts a batch leaves every URL it
\* admitted in the in-flight set, none of which was there before, and at no
\* time do two batches hold the same URL as admitted.
C30_AtomicAdmission ==
    /\ [](\A x, y \in Batches :
            x # y => Range(filtered_urls[x]) \cap Range(filtered_urls[y]) = {})
    /\ [][\A x \in Batches :
            (pc[x] \in Ended /\ pc'[x] = "aenter") =>
                /\ Range(filtered_urls'[x]) \cap processing_urls = {}
                /\ processing_urls' = processing_urls \cup Range(filtered_urls'[x])]_vars

\* both batches were handed the same URL and both are acquiring their
\* client: one admitted it, the other admitted only its second URL
C30_Witness ==
    \E x, y \in Batches :
        /\ pc[x] = "aenter" /\ pc[y] = "aenter"
        /\ urls[x] # urls[y]
        /\ Range(urls[x]) \cap Range(urls[y]) # {}
        /\ Range(urls[x]) \cap Range(urls[y]) \subseteq Range(filtered_urls[x])
        /\ filtered_urls[y] # << >>
        /\ Range(filtered_urls[x]) \cap Range(filtered_urls[y]) = {}

\* C31: with the cache switched off no step of a batch reads or writes the
\* cache: every task leaves its cache check for the fetch, none returns a
\* cached result, and the cache is the same after every step, so that it
\* holds after any number of batches what it held at the start (nothing).
C31_DisabledCacheUntouched ==
    /\ [](~enable_cache =>
            /\ cache = << >>
            /\ \A b \in Batches : \A i \in DOMAIN tasks[b] : tasks[b][i].pc # "hit"
            /\ \A u \in URLS : CheckCache(u) = NoResult)
    /\ [][~enable_cache =>
            /\ cache' = cache
            /\ \A b \in Batches : \A i \in DOMAIN tasks[b] :
                  LeavesCheck(b, i) => tasks'[b][i].pc = "fetch"]_vars

\* with the cache switched off a batch of two URLs has collected two
\* reports with their screenshots, and the cache holds nothing
C31_Witness ==
    /\ ~enable_cache
    /\ pc[1] = "send"
    /\ Len(analysis_results[1]) = 2
    /\ \A i \in DOMAIN analysis_results[1] :
          /\ analysis_results[1][i].result = "analysis"
          /\ analysis_results[1][i].screenshot = "img"
    /\ cache = << >>

\* C32: once the tasks of a batch have finished, its client is closed; if
\* the delivery then fails or is interrupted (the error branch of the
\* sender, the consumer walking away, a cancellation), the step that ends the
\* batch still takes its admitted URLs out of the in-flight set, and no step
\* of the delivery phase takes a result out of the cache.
C32_DeliveryFailureCleansUp ==
    /\ [](\A b \in Batches :
            pc[b] \in {"send", "send_error", "abandoned"} =>
                /\ analyzer[b] = "none"
                /\ Range(filtered_urls[b]) \subseteq processing_urls)
    /\ [][\A b \in Batches :
            /\ (pc[b] = "send" /\ pc'[b] # "send") =>
                    pc'[b] \in {"send_error", "abandoned", "done", "cancelled"}
            /\ (pc[b] \in {"send", "send_error", "abandoned"} /\ pc'[b] # pc[b]) =>
                    /\ analyzer'[b] = "none"
                    /\ \A i \in DOMAIN analysis_results[b] :
                          CacheHas(cache, analysis_results[b][i].url) /\ now' = now =>
                              CacheGet(cache', analysis_results[b][i].url, now)
                                  = CacheGet(cache, analysis_results[b][i].url, now)
            /\ (pc[b] \in {"send", "send_error", "abandoned"} /\ pc'[b] \in Ended) =>
                    /\ processing_urls' = processing_urls \ Range(filtered_urls[b])
                    /\ cache' = cache]_vars

\* the delivery of a batch has failed after its first result was handed
\* over: the client is closed, both results are in the cache, and the URLs
\* are still in flight until the generator is resumed or closed
C32_Witness ==
    /\ pc[1] = "send_error"
    /\ sent[1] = 1
    /\ Len(analysis_results[1]) = 2
    /\ analyzer[1] = "none"
    /\ \A i \in DOMAIN analysis_results[1] :
          CheckCache(analysis_results[1][i].url) = analysis_results[1][i]
    /\ processing_urls = Range(filtered_urls[1])

\* C33: no step of the single-URL export command changes the cache or the
\* in-flight set: on a cache hit the command ends at once, without a fetch;
\* on a miss it fetches and analyses the URL and ends with the cache and the
\* in-flight set as they were, the URL still without an entry of its own
\* making.
C33_ExportLeavesState ==
    [][(epc' # epc \/ eurl' # eurl) =>
        /\ processing_urls' = processing_urls
        /\ cache' = cache
        /\ (epc \in {"idle", "done"} /\ epc' = "fetch") => CheckCache(eurl') = NoResult
        /\ (epc \in {"idle", "done"} /\ epc' = "done") =>
                (eurl' = "none" /\ \E u \in URLS : CheckCache(u) # NoResult)
        /\ epc = "llm" => \A u \in URLS : CacheGet(cache', u, now) = CacheGet(cache, u, now)]_vars

\* the export command has run to its end on a miss, no batch has ever
\* started: the cache is still empty and nothing is in flight
C33_Witness ==
    /\ enable_cache
    /\ epc = "done"
    /\ \A b \in Batches : pc[b] = "idle"
    /\ cache = << >>
    /\ processing_urls = {}

\* C34: whatever integers the configuration gives for max_cache_size and
\* cache_expire_time, the cache is constructed with a capacity from 10 to
\* 1000 and an expiry time from 5 to 10080, both strictly positive, and no
\* step changes either of them afterwards.
C34_SettingsClamped ==
    /\ [](/\ max_cache_size \in 10..1000
          /\ cache_expire_time \in 5..10080
          /\ max_cache_size > 0 /\ cache_expire_time > 0
          /\ cache_settings.max_cache_size \in 10..1000 =>
                max_cache_size = cache_settings.max_cache_size
          /\ cache_settings.cache_expire_time \in 5..10080 =>
                cache_expire_time = cache_settings.cache_expire_time
          /\ Len(cache) <= max_cache_size)
    /\ [][/\ max_cache_size' = max_cache_size
          /\ cache_expire_time' = cache_expire_time
          /\ cache_settings' = cache_settings]_vars

\* configured with a size of 0 and an expiry time of 10081, the cache has a
\* capacity of 10, which it has filled, and an expiry time of 10080, which
\* has passed once
C34_Witness ==
    /\ cache_settings.max_cache_size = 0
    /\ cache_settings.cache_expire_time = 10081
    /\ max_cache_size = 10
    /\ cache_expire_time = 10080
    /\ Len(cache) = 10
    /\ now = 10080

====
